---- MODULE Spec2Model ----
(***************************************************************************)
(* A model of cochainio/orm: the transaction guard TX (Begin, Commit,     *)
(* End), the chunked bulk insert of package bulk_insert, and the          *)
(* before-create callback that generates identifiers.                      *)
(*                                                                         *)
(* Strings that the code only compares are TLA+ strings.  Database column *)
(* names, which the code sorts, are integers whose order is the byte      *)
(* order of the names they stand for (see KeyName).                       *)
(***************************************************************************)
EXTENDS Integers, Sequences, FiniteSets, TLC

\* ------------------------------------------------------------------ bounds

\* Calls made on one guard (Commit and End together).
MaxOps == 4

\* Records in one input list.
MaxObjs == 5

\* The largest chunkSize tried.
MaxChunk == 3

\* Records created through the callback in one run.
MaxCreates == 2

\* ------------------------------------------------------------------- state

\* The transaction guard and its session.
VARIABLES
    pcTX,       \* "idle" before Begin, "begun" once the guard exists
    committed,  \* TX.committed
    sessTx,     \* the session's *sql.Tx: "none" (Begin failed), "active", "done"
    sessErr,    \* TX.DB.Error: the errors the session has accumulated, <<>> is nil
    calls,      \* the calls the guard has issued on the session, in order
    ret,        \* the last Commit's result: [kind |-> "none"] before any return,
                \* [kind |-> "returned", err |-> the error list, <<>> for nil]
    panicked,   \* the last Commit panicked
    ops,        \* history: the guard's methods called so far, with Commit's argument
    commitOK    \* history: some Commit has returned nil

txVars == <<pcTX, committed, sessTx, sessErr, calls, ret, panicked, ops, commitOK>>

\* One call of BulkInsert.
VARIABLES
    naming,          \* gorm.TheNamingStrategy: "default", or "identity" once
                     \* Instantiate has registered its own
    pcB,             \* "idle", "running" (inside BulkInsert's loop), "done"
    objects,         \* objectInterfaces
    chunkSize,
    replace,
    excludeColumns,
    chunks,          \* splitObjects(objectInterfaces, chunkSize)
    next,            \* index in chunks of the objSet the loop handles next
    execs,           \* the statements handed to db.Exec, in order, each with
                     \* db.Exec's answer and the objSet it was built from
    extracted,       \* history: the chunks insertObjSet was called on, in order
    retB             \* BulkInsert's result, "nil" for no error

bulkVars == <<naming, pcB, objects, chunkSize, replace, excludeColumns, chunks,
              next, execs, extracted, retB>>

\* The before-create callback.
VARIABLES
    created,    \* history: each record as the callback got it and as it left it
    xids,       \* identifiers xid.New() has handed out
    clock       \* gorm.NowFunc()'s time

hookVars == <<created, xids, clock>>

vars == <<txVars, bulkVars, hookVars>>

\* ============================================================== TX guard

\* What the driver may answer to a statement on a live transaction.
DriverOutcomes == {"nil", "ErrDriver"}

\* The variadic noPanic argument of Commit.
NoPanicArgs == {<<>>, <<TRUE>>, <<FALSE>>}

Nil == <<>>

NoReturn == [kind |-> "none", err |-> Nil]

Returned(errs) == [kind |-> "returned", err |-> errs]

Contains(s, e) == \E i \in 1..Len(s) : s[i] = e

\* gorm's DB.AddError as Commit and Rollback use it: nil adds nothing, an
\* error joins the errors the session already carries and is never cleared.
AddError(errs, e) ==
    IF e = "nil" \/ Contains(errs, e) THEN errs ELSE Append(errs, e)

\* db.DB.Begin(): the session of the new guard.
SessionBegin(o) ==
    IF o = "nil"
    THEN [tx |-> "active", err |-> Nil]
    ELSE [tx |-> "none", err |-> AddError(Nil, o)]

\* tx.DB.Commit(): a live transaction ends with the driver's answer, a
\* finished one answers ErrTxDone, a missing one ErrInvalidTransaction.
SessionCommit(tx, errs, o) ==
    CASE tx = "active" -> [tx |-> "done", err |-> AddError(errs, o)]
      [] tx = "done"   -> [tx |-> "done", err |-> AddError(errs, "ErrTxDone")]
      [] OTHER         -> [tx |-> tx, err |-> AddError(errs, "ErrInvalidTransaction")]

\* tx.Rollback(): as SessionCommit, but ErrTxDone is not recorded.
SessionRollback(tx, errs, o) ==
    CASE tx = "active" -> [tx |-> "done", err |-> AddError(errs, o)]
      [] tx = "done"   -> [tx |-> "done", err |-> errs]
      [] OTHER         -> [tx |-> tx, err |-> AddError(errs, "ErrInvalidTransaction")]

\* The test with noPanic[0] left out: any argument suppresses the panic.
NoPanicIfGiven(noPanic) == Len(noPanic) > 0

\* len(noPanic) > 0 && noPanic[0]
NoPanic(noPanic) == Len(noPanic) > 0 /\ noPanic[1]

Begin(o) ==
    /\ pcTX = "idle"
    /\ pcTX' = "begun"
    /\ committed' = FALSE
    /\ sessTx' = SessionBegin(o).tx
    /\ sessErr' = SessionBegin(o).err
    /\ UNCHANGED <<calls, ret, panicked, ops, commitOK>>
    /\ UNCHANGED <<bulkVars, hookVars>>

\* EndRollsBack with the test of tx.committed left out.
EndAlwaysRollsBack(c) == TRUE

\* if !tx.committed
EndRollsBack(c) == ~c

End(o) ==
    /\ pcTX = "begun"
    /\ Len(ops) < MaxOps
    /\ ops' = Append(ops, [op |-> "End", noPanic |-> <<>>])
    /\ IF EndRollsBack(committed)
       THEN /\ calls' = Append(calls, "Rollback")
            /\ sessTx' = SessionRollback(sessTx, sessErr, o).tx
            /\ sessErr' = SessionRollback(sessTx, sessErr, o).err
       ELSE UNCHANGED <<calls, sessTx, sessErr>>
    /\ UNCHANGED <<pcTX, committed, ret, panicked, commitOK>>
    /\ UNCHANGED <<bulkVars, hookVars>>

\* CommitMarks with tx.committed = true moved above the error check.
CommitMarksAlways(errs) == TRUE

\* tx.committed = true is reached only past the error check.
CommitMarks(errs) == errs = Nil

Commit(noPanic, o) ==
    /\ pcTX = "begun"
    /\ Len(ops) < MaxOps
    /\ ops' = Append(ops, [op |-> "Commit", noPanic |-> noPanic])
    /\ calls' = Append(calls, "Commit")
    /\ sessTx' = SessionCommit(sessTx, sessErr, o).tx
    /\ sessErr' = SessionCommit(sessTx, sessErr, o).err
    /\ IF sessErr' # Nil
       THEN /\ IF NoPanic(noPanic)
               THEN ret' = Returned(sessErr') /\ panicked' = FALSE
               ELSE ret' = NoReturn /\ panicked' = TRUE
            /\ commitOK' = commitOK
       ELSE /\ ret' = Returned(Nil)
            /\ panicked' = FALSE
            /\ commitOK' = TRUE
    /\ committed' = IF CommitMarks(sessErr') THEN TRUE ELSE committed
    /\ UNCHANGED pcTX
    /\ UNCHANGED <<bulkVars, hookVars>>

InitTX ==
    /\ pcTX = "idle"
    /\ committed = FALSE
    /\ sessTx = "none"
    /\ sessErr = Nil
    /\ calls = <<>>
    /\ ret = NoReturn
    /\ panicked = FALSE
    /\ ops = <<>>
    /\ commitOK = FALSE

NextTX ==
    \/ \E o \in DriverOutcomes : Begin(o)
    \/ \E o \in DriverOutcomes : End(o)
    \/ \E np \in NoPanicArgs, o \in DriverOutcomes : Commit(np, o)


\* ------------------------------------------------------- TX guard: claims

Last(s) == s[Len(s)]

Count(s, e) == Cardinality({i \in 1..Len(s) : s[i] = e})

OpNames == [i \in 1..Len(ops) |-> ops[i].op]

\* The step is a call of End / of Commit on the guard.
EndStep == Len(ops') = Len(ops) + 1 /\ Last(ops').op = "End"

CommitStep == Len(ops') = Len(ops) + 1 /\ Last(ops').op = "Commit"

\* The guard's state as its calls show it: committed once tx.committed is
\* set, rolled back once it has issued a Rollback, open otherwise.
IsCommitted == committed

IsRolledBack == Contains(calls, "Rollback")

IsOpen == pcTX = "begun" /\ ~IsCommitted /\ ~IsRolledBack

GuardState ==
    IF IsCommitted THEN "committed" ELSE IF IsRolledBack THEN "rolled-back" ELSE "open"

\* C1: a call of End issues a Rollback on the session if and only if no
\* Commit of the guard has returned nil before it; after a successful Commit
\* End issues nothing and leaves the guard and the session as they were.
C1_EndRollsBackIffNotCommitted ==
    [][EndStep =>
        /\ (calls' = Append(calls, "Rollback")) <=> ~commitOK
        /\ commitOK => UNCHANGED <<committed, sessTx, sessErr, calls, ret, panicked>>
        /\ ~commitOK => Len(calls') = Len(calls) + 1]_txVars

\* C1's case: End was called after a Commit that returned nil, and no
\* Rollback reached the session.
C1_Witness ==
    /\ Len(ops) >= 2
    /\ Last(ops).op = "End"
    /\ commitOK
    /\ calls = <<"Commit">>

\* C2 as claimed: with no Commit called and End called two or more times,
\* exactly one Rollback has been issued on the session.
C2_OneRollbackForRepeatedEnd ==
    (Count(OpNames, "End") >= 2 /\ Count(OpNames, "Commit") = 0)
        => Count(calls, "Rollback") = 1

\* C3: a Commit with noPanic = true that finds a session error after the
\* commit was issued returns exactly that error, does not panic and leaves
\* tx.committed as it was; Commit returns nil, and marks the guard
\* committed, exactly when the session carries no error after the commit.
C3_CommitReturnsSessionError ==
    [][CommitStep =>
        /\ Last(calls') = "Commit"
        /\ (sessErr' # Nil /\ Last(ops').noPanic = <<TRUE>>) =>
               /\ ret' = Returned(sessErr')
               /\ ~panicked'
               /\ committed' = committed
        /\ (sessErr' # Nil /\ Last(ops').noPanic # <<TRUE>>) =>
               /\ panicked'
               /\ committed' = committed
        /\ (ret' = Returned(Nil) /\ ~panicked') <=> sessErr' = Nil
        /\ sessErr' = Nil => committed'
        /\ (committed' /\ ~committed) => sessErr' = Nil]_txVars

\* C3's case: the last call was Commit(true), the session carries an error,
\* and that error came back without a panic and without marking the guard.
C3_Witness ==
    /\ ops # <<>>
    /\ Last(ops) = [op |-> "Commit", noPanic |-> <<TRUE>>]
    /\ sessErr # Nil
    /\ ret = Returned(sessErr)
    /\ ~panicked
    /\ ~committed

\* C4 as claimed: the guard is in exactly one of open, committed,
\* rolled-back; from open a Commit without session error leads to committed,
\* a Commit that finds a session error or an End leads to rolled-back; and
\* committed and rolled-back are terminal.
C4_StateMachineAsStated ==
    [][(EndStep \/ CommitStep) =>
        /\ ~(IsCommitted' /\ IsRolledBack')
        /\ (IsOpen /\ CommitStep /\ sessErr' = Nil) => GuardState' = "committed"
        /\ (IsOpen /\ CommitStep /\ sessErr' # Nil) => GuardState' = "rolled-back"
        /\ (IsOpen /\ EndStep) => GuardState' = "rolled-back"
        /\ ~IsOpen => GuardState' = GuardState]_txVars

\* C4 as the code has it: as stated, except that a Commit that finds a
\* session error leaves the guard open (tx.committed stays false and no
\* Rollback is issued); the guard reaches rolled-back only through End.
C4_StateMachine ==
    [][(EndStep \/ CommitStep) =>
        /\ ~(IsCommitted' /\ IsRolledBack')
        /\ (IsOpen /\ CommitStep /\ sessErr' = Nil) => GuardState' = "committed"
        /\ (IsOpen /\ CommitStep /\ sessErr' # Nil) =>
               GuardState' = "open" /\ ~Contains(calls', "Rollback")
        /\ (IsOpen /\ EndStep) => GuardState' = "rolled-back"
        /\ ~IsOpen => GuardState' = GuardState]_txVars

\* C4's case: a Commit found a session error on an open guard, which is
\* still open, and a later End has not yet been called.
C4_Witness ==
    /\ ops # <<>>
    /\ Last(ops).op = "Commit"
    /\ sessTx = "done"
    /\ sessErr # Nil
    /\ GuardState = "open"
    /\ calls = <<"Commit">>

\* ============================================================ bulk insert


\* Column names as integers in the byte order of the names:
\*   1 "Kind"   2 "age"   3 "code"   4 "created_at"   5 "id"   6 "kind"
\*   7 "name"   8 "owner"   9 "profile"   10 "secret"   11 "weight"
KeyName ==
    <<"Kind", "age", "code", "created_at", "id", "kind", "name", "owner",
      "profile", "secret", "weight">>

\* field.DBName == "id"
IdColumn == 5

\* time.Now(): the instant of the extraction, an opaque value here.
TimeNow == 100

\* gorm.ToColumnName: the naming strategy's Column function.  The default
\* one turns a name to snake case, so "Kind" (a column tag) becomes "kind";
\* the one Instantiate registers returns the name as it is.
ToColumnName(key) ==
    IF naming = "identity" THEN key
    ELSE IF KeyName[key] = "Kind" THEN 6 ELSE key

Field(name, dbName) ==
    [name |-> name, dbName |-> dbName, rel |-> FALSE, fk |-> FALSE,
     ignored |-> FALSE, pk |-> FALSE, hasDefault |-> FALSE,
     hasTag |-> FALSE, tag |-> 0]

\* The struct types of the records tried, as (&gorm.Scope{Value: value}).Fields()
\* describes them.
Fields(typ) ==
    CASE typ = "User" ->
           << [Field("ID", 5) EXCEPT !.pk = TRUE],
              Field("Name", 7),
              [Field("Age", 2) EXCEPT !.hasDefault = TRUE, !.hasTag = TRUE, !.tag = 18],
              Field("CreatedAt", 4),
              [Field("Profile", 9) EXCEPT !.rel = TRUE] >>
      [] typ = "Pet" ->
           << [Field("ID", 5) EXCEPT !.pk = TRUE],
              Field("Name", 7),
              Field("Kind", 1),
              [Field("Weight", 11) EXCEPT !.hasDefault = TRUE],
              [Field("Secret", 10) EXCEPT !.ignored = TRUE],
              [Field("Owner", 8) EXCEPT !.fk = TRUE] >>
      [] typ = "Tag" ->
           << [Field("Code", 3) EXCEPT !.pk = TRUE],
              Field("Name", 7) >>
      [] OTHER -> << >>

TableName(typ) ==
    CASE typ = "User" -> "users" [] typ = "Pet" -> "pets" [] typ = "Tag" -> "tags"
      [] OTHER -> ""

\* field.IsBlank: the field holds its type's zero value.
IsBlank(v) == v = 0

UserObj(i) ==
    [kind |-> "struct", typ |-> "User",
     vals |-> <<i, 10 + i, IF i % 2 = 0 THEN 0 ELSE 20 + i, 0, 0>>]

PetObj == [kind |-> "struct", typ |-> "Pet", vals |-> <<50, 51, 52, 0, 53, 54>>]

TagObj == [kind |-> "struct", typ |-> "Tag", vals |-> <<60, 61>>]

\* A value whose reflect.Kind is not Struct (a pointer to a struct is one).
NonStruct == [kind |-> "ptr", typ |-> "", vals |-> << >>]

OddObjs == {PetObj, TagObj, NonStruct}

BaseList(n) == [i \in 1..n |-> UserObj(i)]

\* The slices passed as objects: same-shape records with distinct values, and
\* the same with one element replaced by a value of another shape.
Slices ==
    {BaseList(n) : n \in 0..MaxObjs}
        \cup UNION {{[BaseList(n) EXCEPT ![p] = odd] : p \in 1..n, odd \in OddObjs} :
                       n \in 1..MaxObjs}

ExcludeChoices == {<< >>, <<"Age">>}

containString(s, value) == \E i \in 1..Len(s) : s[i] = value

RECURSIVE sortedKeysOf(_)
sortedKeysOf(S) ==
    IF S = {} THEN << >>
    ELSE LET m == CHOOSE x \in S : \A y \in S : x <= y
         IN <<m>> \o sortedKeysOf(S \ {m})

sortedKeys(attrs) == sortedKeysOf(DOMAIN attrs)

RECURSIVE splitObjects(_, _)
splitObjects(objArr, size) ==
    IF Len(objArr) > size
    THEN <<SubSeq(objArr, 1, size)>>
             \o splitObjects(SubSeq(objArr, size + 1, Len(objArr)), size)
    ELSE IF Len(objArr) > 0 THEN <<objArr>> ELSE << >>

NoAttrs == [k \in {} |-> 0]

\* The test that keeps a field in the mapping.
KeepsField(f, excl) ==
    /\ ~containString(excl, f.name)
    /\ ~f.rel
    /\ ~f.fk
    /\ ~f.ignored
    /\ ~(f.dbName = IdColumn /\ f.pk)

\* The value stored for a kept field.
AttrValue(f, v) ==
    IF f.name = "CreatedAt" \/ f.name = "UpdatedAt" THEN TimeNow
    ELSE IF f.hasDefault /\ IsBlank(v)
         THEN IF f.hasTag THEN f.tag ELSE v
         ELSE v

RECURSIVE ExtractFields(_, _, _, _, _)
ExtractFields(fs, vals, i, excl, attrs) ==
    IF i > Len(fs) THEN attrs
    ELSE IF KeepsField(fs[i], excl)
         THEN ExtractFields(fs, vals, i + 1, excl,
                  [k \in DOMAIN attrs \cup {fs[i].dbName} |->
                      IF k = fs[i].dbName THEN AttrValue(fs[i], vals[i]) ELSE attrs[k]])
         ELSE ExtractFields(fs, vals, i + 1, excl, attrs)

extractMapValue(value, excl) ==
    IF value.kind # "struct"
    THEN [err |-> "value must be kind of Struct", attrs |-> NoAttrs]
    ELSE [err |-> "nil",
          attrs |-> ExtractFields(Fields(value.typ), value.vals, 1, excl, NoAttrs)]

\* len(objAttrs) != attrSize, with the test left out.
SizesNeverDiffer(n, attrSize) == FALSE

\* len(objAttrs) != attrSize
SizesDiffer(n, attrSize) == n # attrSize

\* One value group, with its last "?" missing.
VariablesShort(keys) == [k \in 1..(Len(keys) - 1) |-> "?"]

\* variables: one "?" for each key of the record's mapping.
Variables(keys) == [k \in 1..Len(keys) |-> "?"]

\* The loop of insertObjSet over its objects, from the i-th on.
RECURSIVE AppendRows(_, _, _, _, _)
AppendRows(objs, i, attrSize, excl, acc) ==
    IF i > Len(objs) THEN acc
    ELSE LET e == extractMapValue(objs[i], excl)
             keys == sortedKeys(e.attrs)
         IN IF e.err # "nil" THEN [acc EXCEPT !.err = e.err]
            ELSE IF SizesDiffer(Cardinality(DOMAIN e.attrs), attrSize)
                 THEN [acc EXCEPT !.err = "attribute sizes are inconsistent"]
                 ELSE AppendRows(objs, i + 1, attrSize, excl,
                          [err |-> "nil",
                           placeholders |->
                               Append(acc.placeholders, Variables(keys)),
                           vars |-> acc.vars \o [k \in 1..Len(keys) |-> e.attrs[keys[k]]]])

NoStatement ==
    [op |-> "", table |-> "", columns |-> << >>, placeholders |-> << >>]

NotExecuted(err) == [err |-> err, execd |-> FALSE, sql |-> NoStatement, vars |-> << >>]

\* insertObjSet; o is what db.Exec answers if the statement gets that far.
insertObjSet(objs, rep, excl, o) ==
    IF Len(objs) = 0 THEN NotExecuted("nil")
    ELSE LET first == extractMapValue(objs[1], excl)
         IN IF first.err # "nil" THEN NotExecuted(first.err)
            ELSE LET attrSize == Cardinality(DOMAIN first.attrs)
                     firstKeys == sortedKeys(first.attrs)
                     dbColumns == [k \in 1..Len(firstKeys) |-> ToColumnName(firstKeys[k])]
                     rows == AppendRows(objs, 1, attrSize, excl,
                                 [err |-> "nil", placeholders |-> << >>, vars |-> << >>])
                 IN IF rows.err # "nil" THEN NotExecuted(rows.err)
                    ELSE [err |-> o,
                          execd |-> TRUE,
                          sql |-> [op |-> IF rep THEN "REPLACE" ELSE "INSERT",
                                   table |-> TableName(objs[1].typ),
                                   columns |-> dbColumns,
                                   placeholders |-> rows.placeholders],
                          vars |-> rows.vars]

\* BulkInsert up to its loop: the slice test and the split.
BulkInsertCall(isSlice, objs, size, rep, excl) ==
    /\ pcB = "idle"
    /\ objects' = objs
    /\ chunkSize' = size
    /\ replace' = rep
    /\ excludeColumns' = excl
    /\ IF ~isSlice
       THEN /\ pcB' = "done"
            /\ retB' = "objects must be a slice"
            /\ chunks' = << >>
       ELSE /\ pcB' = "running"
            /\ retB' = "nil"
            /\ chunks' = splitObjects(objs, size)
    /\ next' = 1
    /\ UNCHANGED <<naming, execs, extracted>>
    /\ UNCHANGED <<txVars, hookVars>>

\* if err != nil { return err }, with the test left out.
ReturnsNever(err) == FALSE

\* if err := insertObjSet(...); err != nil { return err }
ReturnsOn(err) == err # "nil"

\* The range loop stepping over an objSet.
NextChunkSkips(n) == n + 2

\* for _, objSet := range splitObjects(...): on to the next objSet.
NextChunk(n) == n + 1

\* One turn of BulkInsert's loop: insertObjSet on the next objSet.
InsertChunk(o) ==
    /\ pcB = "running"
    /\ next <= Len(chunks)
    /\ LET r == insertObjSet(chunks[next], replace, excludeColumns, o)
       IN /\ extracted' = Append(extracted, next)
          /\ execs' = IF r.execd
                      THEN Append(execs, [sql |-> r.sql, vars |-> r.vars, err |-> r.err,
                                          chunk |-> next, objs |-> chunks[next]])
                      ELSE execs
          /\ IF ReturnsOn(r.err)
             THEN pcB' = "done" /\ retB' = r.err /\ next' = next
             ELSE pcB' = "running" /\ retB' = retB /\ next' = NextChunk(next)
    /\ UNCHANGED <<naming, objects, chunkSize, replace, excludeColumns, chunks>>
    /\ UNCHANGED <<txVars, hookVars>>

\* The loop is over: return nil.
BulkInsertReturn ==
    /\ pcB = "running"
    /\ next > Len(chunks)
    /\ pcB' = "done"
    /\ retB' = "nil"
    /\ UNCHANGED <<naming, objects, chunkSize, replace, excludeColumns, chunks,
                   next, execs, extracted>>
    /\ UNCHANGED <<txVars, hookVars>>

InitBulk ==
    /\ naming \in {"default", "identity"}
    /\ pcB = "idle"
    /\ objects = << >>
    /\ chunkSize = 1
    /\ replace = FALSE
    /\ excludeColumns = << >>
    /\ chunks = << >>
    /\ next = 1
    /\ execs = << >>
    /\ extracted = << >>
    /\ retB = "nil"

NextBulk ==
    \/ \E objs \in Slices, size \in 1..MaxChunk, rep \in BOOLEAN, excl \in ExcludeChoices :
           BulkInsertCall(TRUE, objs, size, rep, excl)
    \/ \E size \in 1..MaxChunk, rep \in BOOLEAN, excl \in ExcludeChoices :
           BulkInsertCall(FALSE, << >>, size, rep, excl)
    \/ \E o \in DriverOutcomes : InsertChunk(o)
    \/ BulkInsertReturn

\* ---------------------------------------------------- bulk insert: claims

RECURSIVE Flatten(_)
Flatten(ss) == IF ss = << >> THEN << >> ELSE Head(ss) \o Flatten(Tail(ss))

Batches == [i \in 1..Len(execs) |-> execs[i].objs]

BatchSizes == [i \in 1..Len(execs) |-> Len(execs[i].objs)]

IsPrefix(s, t) == Len(s) <= Len(t) /\ SubSeq(t, 1, Len(s)) = s

\* BulkInsert was called with a slice.
SliceCall == pcB # "idle" /\ retB # "objects must be a slice"

\* The shape of a record's mapping: the number of its attributes.
Shape(obj) == Cardinality(DOMAIN extractMapValue(obj, excludeColumns).attrs)

\* C5: the batches executed are non-empty contiguous slices of the input, in
\* input order and of at most chunkSize records each, one value group per
\* record; when BulkInsert returns nil they add up to the whole input.  So
\* no statement is executed for an empty input, and 5 records with chunkSize
\* 2 give 3 statements of 2, 2 and 1 rows.
C5_BatchesPartitionInput ==
    SliceCall =>
        /\ IsPrefix(Flatten(Batches), objects)
        /\ \A i \in 1..Len(execs) :
               /\ 1 <= Len(execs[i].objs)
               /\ Len(execs[i].objs) <= chunkSize
               /\ Len(execs[i].sql.placeholders) = Len(execs[i].objs)
        /\ (pcB = "done" /\ retB = "nil") =>
               /\ Flatten(Batches) = objects
               /\ objects = << >> => execs = << >>
               /\ (Len(objects) = 5 /\ chunkSize = 2) => BatchSizes = <<2, 2, 1>>

\* C5's case: 5 records went in with chunkSize 2 and BulkInsert returned nil
\* after 3 statements.
C5_Witness ==
    /\ pcB = "done"
    /\ retB = "nil"
    /\ Len(objects) = 5
    /\ chunkSize = 2
    /\ Len(execs) = 3

\* What insertObjSet returned for a chunk it was called on: db.Exec's answer
\* if a statement was executed, else the error found before.
ExecsOf(c) == {i \in 1..Len(execs) : execs[i].chunk = c}

ChunkError(c) ==
    IF ExecsOf(c) # {}
    THEN execs[CHOOSE i \in ExecsOf(c) : TRUE].err
    ELSE insertObjSet(chunks[c], replace, excludeColumns, "nil").err

\* C6: chunks are handled strictly in input order; the first chunk whose
\* extraction, consistency check or execution fails ends the call with that
\* chunk's error, no later chunk is extracted or executed, and the
\* statements executed before stay executed: nothing but INSERT or REPLACE
\* statements, one per earlier chunk, ever reaches db.Exec.
C6_StopsAtFirstError ==
    /\ [](SliceCall =>
            /\ extracted = [k \in 1..Len(extracted) |-> k]
            /\ Len(extracted) <= Len(chunks)
            /\ \A k \in 1..Len(extracted) :
                   /\ Cardinality(ExecsOf(k)) <= 1
                   /\ ChunkError(k) # "nil" =>
                          /\ k = Len(extracted)
                          /\ pcB = "done"
                          /\ retB = ChunkError(k)
                   /\ k < Len(extracted) => Cardinality(ExecsOf(k)) = 1
            /\ \A i \in 1..Len(execs) :
                   /\ execs[i].sql.op \in {"INSERT", "REPLACE"}
                   /\ execs[i].chunk \in 1..Len(extracted)
                   /\ \A j \in 1..(i - 1) : execs[j].chunk < execs[i].chunk
            /\ pcB = "running" => next = Len(extracted) + 1)
    /\ [][IsPrefix(execs, execs') /\ IsPrefix(extracted, extracted')]_vars

\* C6's case: the second chunk or a later one failed after earlier chunks
\* were executed, and chunks remain that were never handled.
C6_Witness ==
    /\ pcB = "done"
    /\ retB # "nil"
    /\ Len(extracted) >= 2
    /\ Len(extracted) < Len(chunks)
    /\ \E i \in 1..Len(execs) : execs[i].err = "nil"

\* The records of a chunk are of inconsistent shape: up to some record all
\* are structs, and that record's mapping differs in size from the first's.
Inconsistent(objs) ==
    \E i \in 1..Len(objs) :
        /\ \A j \in 1..i : objs[j].kind = "struct"
        /\ Shape(objs[i]) # Shape(objs[1])

C8_StatementShape ==
    \A i \in 1..Len(execs) :
        LET e == execs[i]
            N == Len(e.objs)
            C == Len(e.sql.columns)
        IN /\ N >= 1
           /\ Len(e.sql.placeholders) = N
           /\ \A g \in 1..N :
                  /\ Len(e.sql.placeholders[g]) = C
                  /\ \A k \in 1..C : e.sql.placeholders[g][k] = "?"
           /\ Len(e.vars) = N * C

\* C8's case: a statement of several rows and several columns was executed.
C8_Witness ==
    \E i \in 1..Len(execs) :
        /\ Len(execs[i].objs) >= 2
        /\ Len(execs[i].sql.columns) >= 2
        /\ Len(execs[i].vars) = Len(execs[i].objs) * Len(execs[i].sql.columns)

\* C10 as claimed: in every statement executed the columns are those of the
\* first record's sorted keys, and the parameter at row i, column k is the
\* value that record i's own mapping holds for the k-th listed column.
C10_RowsMatchColumns ==
    \A x \in 1..Len(execs) :
        LET e == execs[x]
            keys == sortedKeys(extractMapValue(e.objs[1], excludeColumns).attrs)
            C == Len(keys)
        IN /\ e.sql.columns = [k \in 1..C |-> ToColumnName(keys[k])]
           /\ \A i \in 1..Len(e.objs) :
                  LET m == extractMapValue(e.objs[i], excludeColumns).attrs
                  IN \A k \in 1..C :
                         /\ keys[k] \in DOMAIN m
                         /\ (i - 1) * C + k <= Len(e.vars)
                         /\ e.vars[(i - 1) * C + k] = m[keys[k]]


\* ==================================================== before-create hook


\* strings.HasSuffix, on names spelt as sequences of characters.
HasSuffix(str, suffix) ==
    /\ Len(str) >= Len(suffix)
    /\ SubSeq(str, Len(str) - Len(suffix) + 1, Len(str)) = suffix

Deleted == <<"d", "e", "l", "e", "t", "e", "d">>

TableNames ==
    { <<"t">>, <<"t", "_">> \o Deleted, Deleted \o <<"_", "t">> }

\* gorm.ToDBName on the two column names the callback passes to SetColumn.
ToDBName(name) ==
    CASE name = "ID" -> "id" [] name = "At" -> "at" [] OTHER -> name

HookField(name, dbName, pk, value) ==
    [name |-> name, dbName |-> dbName, pk |-> pk, value |-> value]

\* The shapes of record tried: a primary key ID (under either naming
\* strategy), a primary key the callback does not take for an ID, an ID that
\* is not the primary key, no primary key, an At column, and a primary key
\* that is itself the At column.
HookShapes(k, a) ==
    { << HookField("ID", "id", TRUE, k), HookField("At", "at", FALSE, a) >>,
      << HookField("ID", "ID", TRUE, k) >>,
      << HookField("Key", "ID", TRUE, k) >>,
      << HookField("Code", "code", TRUE, k), HookField("ID", "id", FALSE, a) >>,
      << HookField("Name", "name", FALSE, a) >>,
      << HookField("At", "at", TRUE, k) >> }

\* 0 is the blank value of a field; 7 and 3 are values a caller has set.
HookScopes ==
    { [table |-> t, fields |-> fs] :
        t \in TableNames, fs \in UNION {HookShapes(k, a) : k \in {0, 7}, a \in {0, 3}} }

\* scope.PrimaryField(): the index of the primary field, 0 for nil.
PrimaryField(scope) ==
    LET pks == {i \in 1..Len(scope.fields) : scope.fields[i].pk}
    IN IF pks = {} THEN 0
       ELSE IF Cardinality(pks) > 1
                 /\ \E i \in 1..Len(scope.fields) : scope.fields[i].dbName = "id"
            THEN CHOOSE i \in 1..Len(scope.fields) :
                     /\ scope.fields[i].dbName = "id"
                     /\ \A j \in 1..(i - 1) : scope.fields[j].dbName # "id"
            ELSE CHOOSE i \in pks : \A j \in pks : i <= j

\* scope.HasColumn(column)
HasColumn(scope, column) ==
    \E i \in 1..Len(scope.fields) :
        scope.fields[i].name = column \/ scope.fields[i].dbName = column

\* The field scope.SetColumn(name, ...) picks: the last whose DBName is
\* ToDBName(name), else the first whose Name is name; 0 for none.
MostMatchedField(scope, name) ==
    LET byDB == {i \in 1..Len(scope.fields) : scope.fields[i].dbName = ToDBName(name)}
        byName == {i \in 1..Len(scope.fields) : scope.fields[i].name = name}
    IN IF byDB # {} THEN CHOOSE i \in byDB : \A j \in byDB : j <= i
       ELSE IF byName # {} THEN CHOOSE i \in byName : \A j \in byName : i <= j
       ELSE 0

\* scope.SetColumn(name, value)
SetColumn(scope, name, value) ==
    LET i == MostMatchedField(scope, name)
    IN IF i = 0 THEN scope
       ELSE [scope EXCEPT !.fields[i].value = value]

\* The test of the callback's earlier variant: scope.HasColumn("ID").
AssignsIDIfPresent(scope) == HasColumn(scope, "ID")

\* pf != nil && (pf.Name == "ID" || pf.DBName == "ID") && pf.IsBlank
AssignsID(scope) ==
    LET pf == PrimaryField(scope)
    IN /\ pf # 0
       /\ scope.fields[pf].name = "ID" \/ scope.fields[pf].dbName = "ID"
       /\ IsBlank(scope.fields[pf].value)

\* The callback registered before gorm:before_create.
beforeCreateCallback(scope, id, now) ==
    IF ~HasSuffix(scope.table, Deleted)
    THEN IF AssignsID(scope) THEN SetColumn(scope, "ID", id) ELSE scope
    ELSE IF HasColumn(scope, "At") THEN SetColumn(scope, "At", now) ELSE scope

\* xid.New(): an identifier no caller has and none handed out before.
NewXid == 1000 + xids + 1

\* gorm.NowFunc(): the time of the call, never the zero time.
NowFunc == 500 + clock

\* One record goes through the create path and so through the callback.
Create(scope) ==
    /\ Len(created) < MaxCreates
    /\ LET after == beforeCreateCallback(scope, NewXid, NowFunc)
       IN created' = Append(created, [before |-> scope, after |-> after])
    /\ xids' = IF ~HasSuffix(scope.table, Deleted) /\ AssignsID(scope)
                THEN xids + 1 ELSE xids
    /\ clock' = clock + 1
    /\ UNCHANGED <<txVars, bulkVars>>

InitHook ==
    /\ created = << >>
    /\ xids = 0
    /\ clock = 0

NextHook == \E scope \in HookScopes : Create(scope)

\* ---------------------------------------------- before-create hook: claims

XidsOut == {1000 + n : n \in 1..xids}

\* The value of a record's primary key, 0 (blank) if it has none.
PrimaryKey(scope, pf) == IF pf = 0 THEN 0 ELSE scope.fields[pf].value

\* The callback put a fresh identifier into the record.
AssignedID(e) ==
    \E i \in 1..Len(e.before.fields) :
        /\ e.after.fields[i].value # e.before.fields[i].value
        /\ e.after.fields[i].value \in XidsOut

\* The record's primary-key field is the At column of a soft-delete table,
\* which the callback stamps with the time.
PrimaryKeyIsAt(scope) ==
    /\ HasSuffix(scope.table, Deleted)
    /\ HasColumn(scope, "At")
    /\ PrimaryField(scope) # 0
    /\ MostMatchedField(scope, "At") = PrimaryField(scope)

\* C9 as claimed: the callback leaves every primary key that is set to a
\* non-blank value as it is, and assigns a fresh identifier only when the
\* table name does not end in "deleted" and the primary-key field is blank.
C9_PresetKeyUnchangedAlways ==
    \A x \in 1..Len(created) :
        LET e == created[x]
            pf == PrimaryField(e.before)
        IN /\ (pf # 0 /\ ~IsBlank(e.before.fields[pf].value)) =>
                  PrimaryKey(e.after, pf) = PrimaryKey(e.before, pf)
           /\ AssignedID(e) =>
                  /\ ~HasSuffix(e.before.table, Deleted)
                  /\ pf # 0
                  /\ IsBlank(e.before.fields[pf].value)

\* C9 as the code has it: as claimed, for every record but one whose
\* primary-key field is itself the At column of a table whose name ends in
\* "deleted"; that key is overwritten with the time.
C9_PresetKeyUnchanged ==
    \A x \in 1..Len(created) :
        LET e == created[x]
            pf == PrimaryField(e.before)
        IN /\ (pf # 0 /\ ~IsBlank(e.before.fields[pf].value)
                  /\ ~PrimaryKeyIsAt(e.before)) =>
                  PrimaryKey(e.after, pf) = PrimaryKey(e.before, pf)
           /\ AssignedID(e) =>
                  /\ ~HasSuffix(e.before.table, Deleted)
                  /\ pf # 0
                  /\ IsBlank(e.before.fields[pf].value)
           /\ PrimaryKeyIsAt(e.before) => PrimaryKey(e.after, pf) # 0

\* C9's case: a record with a primary key ID already set went through the
\* callback on a table that is not a soft-delete table and kept its key,
\* and a record with a blank ID got a fresh one.
C9_Witness ==
    /\ \E x \in 1..Len(created) :
           LET e == created[x]
               pf == PrimaryField(e.before)
           IN /\ pf # 0
              /\ e.before.fields[pf].name = "ID"
              /\ ~IsBlank(e.before.fields[pf].value)
              /\ ~HasSuffix(e.before.table, Deleted)
              /\ e.after = e.before
    /\ \E x \in 1..Len(created) : AssignedID(created[x])


\* ========================================================= specifications

Init == InitTX /\ InitBulk /\ InitHook

\* The guard alone, the bulk insert alone, the callback alone, and all three.
SpecTX == Init /\ [][NextTX]_vars

SpecBulk == Init /\ [][NextBulk]_vars

SpecHook == Init /\ [][NextHook]_vars

Next == NextTX \/ NextBulk \/ NextHook

Spec == Init /\ [][Next]_vars

====
